---- MODULE Spec2Model ----
(***************************************************************************)
(* Ray-casting selection and "reel" manipulation of the class Game.        *)
(*                                                                         *)
(* The repository holds two builds of the same class:                      *)
(*   "complete" : src/unnamed/part_000 (trigger and thumbstick handlers)   *)
(*   "starter"  : src/src/index.ts     (trigger handler only)              *)
(* The variable build, fixed in Init, says which one is running.           *)
(*                                                                         *)
(* Lengths are integers: the hit distance is in metres, the thumbstick     *)
(* displacement and its sum per object are in millimetres, elapsed time in *)
(* milliseconds, so -axes.y * (dt / 1000) * 3 metres is -axes.y * dt * 3   *)
(* millimetres.                                                            *)
(***************************************************************************)
EXTENDS Integers, FiniteSets

\* ---------------------------------------------------------------- bounds
NumObjects == 2      \* cubes of the testbed (the code creates 100)
MaxDist == 2         \* largest hit distance offered by the ray caster, metres
MaxDelta == 10       \* largest elapsed frame time, milliseconds
MaxSteps == 1        \* longest moves the objects may be away from their start, in total

\* ------------------------------------------------------- program constants
ReelSpeed == 3       \* the factor 3 of moveDistance

Null == 0
Objects == 1..NumObjects
Dists == 1..MaxDist
Axes == {-1, 0, 1}
DeltaTimes == {0, MaxDelta}
Forwards == {<<0, 0, 1>>, <<1, 0, 0>>}
Builds == {"complete", "starter"}
Hands == {"left", "right"}
NoPick == [hit |-> FALSE, pickedMesh |-> Null, distance |-> 0]
Picks == {NoPick} \cup
         {[hit |-> TRUE, pickedMesh |-> o, distance |-> d] : o \in Objects, d \in Dists}

VARIABLES
    build,              \* which build of Game is running
    pc,                 \* position of the render loop: "idle" between frames, then
                        \* "trigger", "thumbstick", "render"; "crashed" after a throw
    connected,          \* hands whose input source is currently connected
    leftController,     \* this.leftController: "null" or "left"
    rightController,    \* this.rightController: "null" or "right"
    motionController,   \* rightController.motionController is defined
    components,         \* component ids of that motion controller
    pressed,            \* trigger component .pressed
    changed,            \* trigger component .changes.pressed is set
    axesY,              \* thumbstick component .axes.y
    deltaTime,          \* engine.getDeltaTime() as last read, milliseconds
    forward,            \* laserPointer.forward as last read
    pickInfo,           \* what the last call of scene.pickWithRay returned
    selectedObject,     \* this.selectedObject: Null or an object
    parent,             \* parent[o]: "null" or "selectionTransform"
    edges,              \* edges[o]: edges rendering (highlight) enabled
    position,           \* position[o]: what the translate calls have added to the
                        \* world position of o, millimetres (the motion of the
                        \* pointer, which a parented object follows, is left out)
    selectionPosition,  \* selectionTransform.position (local)
    color,              \* laserPointer.color
    laserParent,        \* laserPointer.parent: "null" or "rightPointer"
    visibility,         \* laserPointer.visibility
    pulsed,             \* a haptic pulse was emitted in the current frame
    rayCast,            \* pickWithRay was called in the current frame
    threw,              \* a TypeError was raised and left update()
    frameStart          \* history: the positions when the current frame started

inputVars == <<pressed, changed, axesY, deltaTime, forward, pickInfo>>
deviceVars == <<connected, leftController, rightController, motionController, components>>
sceneVars == <<selectedObject, parent, edges, position, selectionPosition>>
laserVars == <<color, laserParent, visibility>>
outVars == <<pulsed, rayCast, threw>>
vars == <<build, pc, inputVars, deviceVars, sceneVars, laserVars, outVars, frameStart>>

Zero3 == <<0, 0, 0>>

\* constructor() and createScene(): the state when the render loop starts
Init ==
    /\ build \in Builds
    /\ pc = "idle"
    /\ connected = {}
    /\ leftController = "null"
    /\ rightController = "null"
    /\ motionController = FALSE
    /\ components = {}
    /\ pressed = FALSE
    /\ changed = FALSE
    /\ axesY = 0
    /\ deltaTime = 0
    /\ forward = <<0, 0, 1>>
    /\ pickInfo = NoPick
    /\ selectedObject = Null
    /\ parent = [o \in Objects |-> "null"]
    /\ edges = [o \in Objects |-> FALSE]
    /\ position = [o \in Objects |-> Zero3]
    /\ selectionPosition = Zero3
    /\ color = "Yellow"
    /\ laserParent = "null"
    /\ visibility = 0
    /\ pulsed = FALSE
    /\ rayCast = FALSE
    /\ threw = FALSE
    /\ frameStart = position

\* ------------------------------------------------------------ engine helpers
\* mutant: the previous selection keeps its highlight
DisableEdgesRenderingForgotten(e, o) == e

\* AbstractMesh.disableEdgesRendering / enableEdgesRendering
DisableEdgesRendering(e, o) == [e EXCEPT ![o] = FALSE]

EnableEdgesRendering(e, o) == [e EXCEPT ![o] = TRUE]

\* Node.setParent(node): the world position is preserved, only the parent changes
SetParent(par, o, node) == [par EXCEPT ![o] = node]

\* TransformNode.translate(axis, distance, Space.WORLD)
Translate(p, axis, distance) == [i \in 1..3 |-> p[i] + axis[i] * distance]

\* this.rightController?.motionController?.getComponent(id) is defined
GetComponent(id) ==
    /\ rightController # "null"
    /\ motionController
    /\ id \in components

TriggerComponent == GetComponent("xr-standard-trigger")

ThumbstickComponent == GetComponent("xr-standard-thumbstick")

\* mutant: the raw pressed state instead of the changed signal
TriggerEdgeRawPressed == TriggerComponent /\ pressed

\* if(component?.changes.pressed)
TriggerEdge == TriggerComponent /\ changed

\* if(this.selectedObject && this.selectedObject.parent)
Attached == selectedObject # Null /\ parent[selectedObject] # "null"

\* mutant: the sign is not inverted
MoveDistanceSameSign(y, dt) == y * dt * ReelSpeed

\* var moveDistance = -component!.axes.y * (this.engine.getDeltaTime() / 1000) * 3;
\* in millimetres
MoveDistance(y, dt) == -y * dt * ReelSpeed

\* mutant: the anchor stays at the pointer's origin
HitOffsetAtOrigin(d) == <<0, 0, 0>>

\* new Vector3(0, 0, pickInfo.distance)
HitOffset(d) == <<0, 0, d>>

\* the color the release branch gives the laser pointer
ReleaseColor == IF build = "complete" THEN "Blue" ELSE "Yellow"

Abs(x) == IF x < 0 THEN -x ELSE x

\* how far o is from where createScene put it, millimetres
Travel(pos, o) == Abs(pos[o][1]) + Abs(pos[o][2]) + Abs(pos[o][3])

RECURSIVE TotalTravel(_, _)
TotalTravel(pos, n) == IF n = 0 THEN 0 ELSE Travel(pos, n) + TotalTravel(pos, n - 1)

\* the model follows the objects while their travel adds up to MaxTravel at most
MaxTravel == MaxSteps * MaxDelta * ReelSpeed

InBox(pos) == TotalTravel(pos, NumObjects) <= MaxTravel

\* mutant: the thumbstick handler runs before the trigger handler
NextHandlerThumbstickFirst(p) ==
    IF build = "complete"
    THEN CASE p = "idle" -> "thumbstick"
           [] p = "thumbstick" -> "trigger"
           [] p = "trigger" -> "render"
    ELSE CASE p = "idle" -> "trigger"
           [] p = "trigger" -> "render"
           [] p = "thumbstick" -> "render"

\* update() and processControllerInput(): the handler that runs after p; the
\* starter build has no thumbstick handler
NextHandler(p) ==
    CASE p = "idle" -> "trigger"
      [] p = "trigger" -> IF build = "complete" THEN "thumbstick" ELSE "render"
      [] p = "thumbstick" -> "render"

\* ------------------------------------------------------ controller events
\* xrHelper.input.onControllerAddedObservable: a new input source of one hand
\* connects; its motion controller is not initialised yet
OnControllerAdded(hand) ==
    /\ pc \in {"idle", "crashed"}
    /\ hand \notin connected
    /\ connected' = connected \cup {hand}
    /\ IF hand = "right"
       THEN /\ rightController' = "right"
            /\ laserParent' = "rightPointer"
            /\ visibility' = 1
            /\ motionController' = FALSE
            /\ components' = {}
            /\ pressed' = FALSE
            /\ changed' = FALSE
            /\ axesY' = 0
            /\ UNCHANGED leftController
       ELSE /\ leftController' = "left"
            /\ UNCHANGED <<rightController, laserParent, visibility, motionController,
                           components, pressed, changed, axesY>>
    /\ UNCHANGED <<build, pc, deltaTime, forward, pickInfo, sceneVars, color, outVars,
                   frameStart>>

\* mutant: removing the right controller drops the selection
OnControllerRemovedDeselects(hand) ==
    /\ pc \in {"idle", "crashed"}
    /\ hand \in connected
    /\ connected' = connected \ {hand}
    /\ IF build = "starter" \/ hand = "right"
       THEN /\ laserParent' = "null"
            /\ visibility' = 0
       ELSE UNCHANGED <<laserParent, visibility>>
    /\ selectedObject' = IF hand = "right" THEN Null ELSE selectedObject
    /\ UNCHANGED <<build, pc, inputVars, leftController, rightController, motionController,
                   components, parent, edges, position, selectionPosition, color, outVars,
                   frameStart>>

\* xrHelper.input.onControllerRemovedObservable
OnControllerRemoved(hand) ==
    /\ pc \in {"idle", "crashed"}
    /\ hand \in connected
    /\ connected' = connected \ {hand}
    /\ IF build = "starter" \/ hand = "right"
       THEN /\ laserParent' = "null"
            /\ visibility' = 0
       ELSE UNCHANGED <<laserParent, visibility>>
    /\ UNCHANGED <<build, pc, inputVars, leftController, rightController, motionController,
                   components, sceneVars, color, outVars, frameStart>>

\* the engine initialises the motion controller of the connected right input
\* source some time after it was added (until then motionController is undefined)
MotionControllerInit ==
    /\ pc \in {"idle", "crashed"}
    /\ "right" \in connected
    /\ ~motionController
    /\ motionController' = TRUE
    /\ components' \in SUBSET {"xr-standard-trigger", "xr-standard-thumbstick"}
    /\ UNCHANGED <<build, pc, inputVars, connected, leftController, rightController,
                   sceneVars, laserVars, outVars, frameStart>>

\* --------------------------------------------------------------- one frame
\* A frame starts (only while the render loop is alive: an exception that
\* leaves update() ends it). The engine polls the devices first: the
\* components of a connected, initialised right controller get their new
\* values (changes.pressed is set exactly when pressed differs from the last
\* poll); components of a removed controller are no longer updated.
BeginFrame ==
    /\ pc = "idle"
    /\ pc' = NextHandler("idle")
    /\ frameStart' = position
    /\ IF "right" \in connected /\ motionController
       THEN /\ IF "xr-standard-trigger" \in components
               THEN \E p \in BOOLEAN : pressed' = p /\ changed' = (p # pressed)
               ELSE UNCHANGED <<pressed, changed>>
            /\ IF "xr-standard-thumbstick" \in components
               THEN axesY' \in Axes
               ELSE UNCHANGED axesY
       ELSE UNCHANGED <<pressed, changed, axesY>>
    /\ UNCHANGED <<build, deltaTime, forward, pickInfo, deviceVars, sceneVars, laserVars,
                   outVars>>

\* onRightTrigger, branch if(component?.pressed)
Press ==
    LET deselected == IF selectedObject # Null
                      THEN DisableEdgesRendering(edges, selectedObject)
                      ELSE edges
    IN  /\ color' = "Green"
        /\ rayCast' = TRUE
        /\ pickInfo' \in Picks
        /\ IF pickInfo'.hit
           THEN /\ selectedObject' = pickInfo'.pickedMesh
                /\ edges' = EnableEdgesRendering(deselected, pickInfo'.pickedMesh)
                /\ selectionPosition' = HitOffset(pickInfo'.distance)
                /\ parent' = SetParent(parent, pickInfo'.pickedMesh, "selectionTransform")
                /\ pulsed' = (build = "complete")
           ELSE /\ selectedObject' = Null
                /\ edges' = deselected
                /\ UNCHANGED <<selectionPosition, parent, pulsed>>
        /\ UNCHANGED position

\* mutant: the release branch pulses whether or not an object is selected
ReleaseAlwaysPulses ==
    /\ color' = ReleaseColor
    /\ pulsed' = TRUE
    /\ IF selectedObject # Null
       THEN parent' = SetParent(parent, selectedObject, "null")
       ELSE UNCHANGED parent
    /\ UNCHANGED <<selectedObject, edges, position, selectionPosition, rayCast, pickInfo>>

\* mutant: the release branch also drops the selection and its highlight
ReleaseDeselects ==
    /\ color' = ReleaseColor
    /\ IF selectedObject # Null
       THEN /\ parent' = SetParent(parent, selectedObject, "null")
            /\ edges' = DisableEdgesRendering(edges, selectedObject)
            /\ pulsed' = (build = "complete")
       ELSE UNCHANGED <<parent, edges, pulsed>>
    /\ selectedObject' = Null
    /\ UNCHANGED <<position, selectionPosition, rayCast, pickInfo>>

\* onRightTrigger, the else branch (the trigger was released)
Release ==
    /\ color' = ReleaseColor
    /\ IF selectedObject # Null
       THEN /\ parent' = SetParent(parent, selectedObject, "null")
            /\ pulsed' = (build = "complete")
       ELSE UNCHANGED <<parent, pulsed>>
    /\ UNCHANGED <<selectedObject, edges, position, selectionPosition, rayCast, pickInfo>>

\* onRightTrigger(component)
OnRightTrigger ==
    /\ pc = "trigger"
    /\ pc' = NextHandler("trigger")
    /\ IF TriggerEdge
       THEN IF pressed THEN Press ELSE Release
       ELSE UNCHANGED <<sceneVars, color, pulsed, rayCast, pickInfo>>
    /\ UNCHANGED <<build, pressed, changed, axesY, deltaTime, forward, deviceVars,
                   laserParent, visibility, threw, frameStart>>

\* onRightThumbstick(component): component!.axes throws a TypeError when the
\* component is undefined
OnRightThumbstick ==
    /\ pc = "thumbstick"
    /\ IF Attached
       THEN IF ThumbstickComponent
            THEN /\ deltaTime' \in DeltaTimes
                 /\ forward' \in Forwards
                 /\ position' = [position EXCEPT ![selectedObject] =
                        Translate(@, forward', MoveDistance(axesY, deltaTime'))]
                 /\ InBox(position')
                 /\ pc' = NextHandler("thumbstick")
                 /\ UNCHANGED threw
            ELSE /\ threw' = TRUE
                 /\ pc' = "crashed"
                 /\ UNCHANGED <<position, deltaTime, forward>>
       ELSE /\ pc' = NextHandler("thumbstick")
            /\ UNCHANGED <<position, threw, deltaTime, forward>>
    /\ UNCHANGED <<build, pressed, changed, axesY, pickInfo, deviceVars, selectedObject,
                   parent, edges, selectionPosition, laserVars, pulsed, rayCast, frameStart>>

\* this.scene.render() ends the frame: what the frame emitted and the values
\* it read, which the next frame reads anew, are forgotten
Render ==
    /\ pc = "render"
    /\ pc' = "idle"
    /\ pulsed' = FALSE
    /\ rayCast' = FALSE
    /\ deltaTime' = 0
    /\ forward' = <<0, 0, 1>>
    /\ pickInfo' = NoPick
    /\ UNCHANGED <<build, pressed, changed, axesY, deviceVars, sceneVars, laserVars, threw,
                   frameStart>>

Next ==
    \/ \E hand \in Hands : OnControllerAdded(hand)
    \/ \E hand \in Hands : OnControllerRemoved(hand)
    \/ MotionControllerInit
    \/ BeginFrame
    \/ OnRightTrigger
    \/ OnRightThumbstick
    \/ Render

Spec == Init /\ [][Next]_vars

TypeOK ==
    /\ build \in Builds
    /\ pc \in {"idle", "trigger", "thumbstick", "render", "crashed"}
    /\ connected \subseteq Hands
    /\ selectedObject \in Objects \cup {Null}
    /\ parent \in [Objects -> {"null", "selectionTransform"}]
    /\ edges \in [Objects -> BOOLEAN]
    /\ InBox(position)
    /\ pickInfo \in Picks
    /\ color \in {"Yellow", "Green", "Blue"}
    /\ visibility \in {0, 1}

\* ================================================================== claims
Held == {o \in Objects : parent[o] = "selectionTransform"}

\* the trigger handler is about to handle a press edge / a release edge
PressEdge == pc = "trigger" /\ TriggerEdge /\ pressed

ReleaseEdge == pc = "trigger" /\ TriggerEdge /\ ~pressed

\* the frame being rendered handled a press edge / a release edge
PressFrame == pc = "render" /\ TriggerEdge /\ pressed

ReleaseFrame == pc = "render" /\ TriggerEdge /\ ~pressed

\* C1: at most one object is selected, and an object has its highlight
\* enabled only if it is the selected object (a new selection disables the
\* highlight of the previous one).
C1_HighlightOnlyOnSelected ==
    /\ selectedObject \in Objects \cup {Null}
    /\ \A o \in Objects : edges[o] => selectedObject = o

\* object 2 was selected after object 1 had been held and moved
C1_Witness ==
    /\ selectedObject = 2
    /\ edges[2]
    /\ ~edges[1]
    /\ position[1] # Zero3

\* C2: a press edge handled while an object is still held first releases
\* it, so at most one object is parented under the anchor transform.
C2_AtMostOneHeld == Cardinality(Held) <= 1

C4_NoErrorRaised == ~threw /\ pc # "crashed"

\* C5: only the trigger handler changes the selection reference: controller
\* added, controller removed, the thumbstick handler and every other step
\* leave it unchanged.
C5_SelectionOnlyByTrigger ==
    [][pc # "trigger" => selectedObject' = selectedObject]_vars

\* the right controller was removed while an object is held: still selected
C5_Witness ==
    /\ "right" \notin connected
    /\ laserParent = "null"
    /\ selectedObject # Null
    /\ parent[selectedObject] = "selectionTransform"

\* C6: on a press edge, a hit on X at distance d leaves X selected,
\* highlighted and parented under the anchor, whose offset is (0, 0, d); no
\* hit leaves nothing selected and no object re-parented.
C6_PressFollowsRayCast ==
    [][PressEdge =>
           /\ rayCast'
           /\ IF pickInfo'.hit
              THEN /\ selectedObject' = pickInfo'.pickedMesh
                   /\ edges'[pickInfo'.pickedMesh]
                   /\ selectionPosition' = <<0, 0, pickInfo'.distance>>
                   /\ parent'[pickInfo'.pickedMesh] = "selectionTransform"
              ELSE /\ selectedObject' = Null
                   /\ parent' = parent]_vars

\* a press hit object 2 at the largest distance while object 1 was selected before
C6_Witness ==
    /\ PressFrame
    /\ pickInfo = [hit |-> TRUE, pickedMesh |-> 2, distance |-> MaxDist]
    /\ selectedObject = 2
    /\ selectionPosition = <<0, 0, MaxDist>>
    /\ position[1] # Zero3

\* C7: while an object is held, the frame's thumbstick handling translates
\* it along the pointer's forward direction by -(axis) x (dt / 1000) x 3:
\* nothing for axis 0, 3 x dt against the forward direction for axis 1
\* (millimetres here: -(axis) x dt x 3).
C7_ReelDisplacement ==
    pc = "render" /\ build = "complete" /\ Attached /\ ThumbstickComponent =>
        /\ \A o \in Objects \ {selectedObject} : position[o] = frameStart[o]
        /\ \A i \in 1..3 :
              position[selectedObject][i] - frameStart[selectedObject][i]
                  = forward[i] * (0 - axesY * deltaTime * 3)
        /\ axesY = 0 => position = frameStart
        /\ axesY = 1 =>
              \A i \in 1..3 :
                  position[selectedObject][i] - frameStart[selectedObject][i]
                      = 0 - 3 * deltaTime * forward[i]

\* the held object was pushed with axis 1 for the longest frame time
C7_Witness ==
    /\ pc = "render"
    /\ Attached
    /\ ThumbstickComponent
    /\ axesY = 1
    /\ deltaTime = MaxDelta
    /\ forward = <<1, 0, 0>>
    /\ position[selectedObject][1] - frameStart[selectedObject][1] = 0 - 3 * MaxDelta

\* C8: the pointer is visible and attached to the right controller exactly
\* when the right-hand controller is connected (events of the left-hand
\* controller change neither).
C8_PointerTracksRightController ==
    (visibility = 1 /\ laserParent = "rightPointer") <=> "right" \in connected

\* C9: in a frame the trigger handler runs before the thumbstick handler: a
\* frame with a press edge that hits grabs the object and then translates
\* it by that frame's thumbstick displacement; a frame with a release edge
\* un-parents the object and gives it no displacement.
C9_TriggerBeforeThumbstick ==
    build = "complete" =>
        /\ PressFrame /\ pickInfo.hit /\ ThumbstickComponent =>
              /\ selectedObject = pickInfo.pickedMesh
              /\ parent[selectedObject] = "selectionTransform"
              /\ selectionPosition = <<0, 0, pickInfo.distance>>
              /\ position = [frameStart EXCEPT ![selectedObject] =
                                [i \in 1..3 |-> @[i] + forward[i] * (0 - axesY * deltaTime * 3)]]
        /\ ReleaseFrame =>
              /\ position = frameStart
              /\ selectedObject # Null => parent[selectedObject] = "null"

\* an object was grabbed and moved in the same frame
C9_Witness ==
    /\ build = "complete"
    /\ PressFrame
    /\ pickInfo.hit
    /\ axesY # 0
    /\ position[selectedObject] # frameStart[selectedObject]

\* C10: a frame in which the trigger is pressed but its changed flag is
\* not set casts no ray, emits no pulse and leaves the selection, the
\* highlights, the anchor offset, the parents and the pointer color unchanged.
C10_HeldTriggerDoesNothing ==
    [][(pc \in {"trigger", "thumbstick"} /\ TriggerComponent /\ pressed /\ ~changed)
           => (/\ UNCHANGED <<selectedObject, edges, selectionPosition, parent, color>>
               /\ ~rayCast'
               /\ ~pulsed')]_vars

\* the trigger is being held down, with an object held, and the handler has run
C10_Witness ==
    /\ pc \in {"thumbstick", "render"}
    /\ TriggerComponent
    /\ pressed
    /\ ~changed
    /\ Attached
    /\ color = "Green"
    /\ ~rayCast

\* this.laserPointer.color = Color3.Yellow() in createScene
StartupColor == "Yellow"

\* this.laserPointer!.color = Color3.Green() in the pressed branch
ActiveColor == "Green"

\* C11: the pointer's color encodes the interaction state in every state:
\* the active color exactly while an object is held, the idle color
\* otherwise, and the idle color is the color the pointer has at startup (so
\* a release resets it to the startup color and a press that hits nothing
\* does not leave it active).
C11_ColorEncodesHolding ==
    IF Attached THEN color = ActiveColor ELSE color = StartupColor

\* C12: a release edge handled while an object is held un-parents it and
\* emits a haptic pulse (part_000) but does not clear the selection: the
\* object stays selected and highlighted, with no parent; the thumbstick
\* handler leaves an un-parented selection unmoved; and the selection stays
\* until the next press edge.
C12_ReleaseKeepsSelection ==
    [][(/\ (ReleaseEdge /\ Attached)
           => (/\ parent'[selectedObject] = "null"
               /\ selectedObject' = selectedObject
               /\ edges'[selectedObject]
               /\ (build = "complete" => pulsed' /\ ~pulsed))
        /\ (pc = "thumbstick" /\ selectedObject # Null /\ parent[selectedObject] = "null")
           => (position' = position /\ pc' = "render")
        /\ (selectedObject # Null /\ ~PressEdge)
           => (selectedObject' = selectedObject /\ edges'[selectedObject]))]_vars

\* a frame after the release, thumbstick pushed: the object is still
\* selected and highlighted, un-parented and unmoved
C12_Witness ==
    /\ build = "complete"
    /\ pc = "render"
    /\ ~TriggerEdge
    /\ ~pressed
    /\ ThumbstickComponent
    /\ axesY = 1
    /\ selectedObject # Null
    /\ edges[selectedObject]
    /\ parent[selectedObject] = "null"
    /\ color = "Blue"
    /\ position = frameStart

====
